---- MODULE Spec2Model ----
(***************************************************************************)
(* Model of the ts-builds CLI (src/unnamed/part_001, lines 327-954):       *)
(* configuration loading (loadConfig), the built-in command table          *)
(* (getBuiltinCommands), the shell runner (runShellCommand) and the chain  *)
(* engine (runChain / runValidate / the main switch).                      *)
(*                                                                         *)
(* JavaScript values are modelled by what the code can observe of them:    *)
(*   - a plain object is a function from its own keys to values; a         *)
(*     property read obj[k] additionally finds the members inherited from  *)
(*     Object.prototype (ProtoNames), which are truthy and are not arrays; *)
(*   - the content of ts-builds.config.json is the JSON value it parses    *)
(*     to (or "garbage" when JSON.parse throws, or "absent").              *)
(***************************************************************************)
EXTENDS Integers, Sequences, FiniteSets, TLC

\* ------------------------------------------------------------------------
\* Bounds of the model
\* ------------------------------------------------------------------------

\* total number of step names written in the user's config file
\* (validateChain plus all entries of chains together)
MaxTotalSteps == 3

\* the largest number of steps of a config file of the fair specification
MaxLiveSteps == 2

\* the largest number of text fragments of an initial .npmrc
MaxNpmrcLen == 3

\* ------------------------------------------------------------------------
\* Names
\* ------------------------------------------------------------------------

\* members every plain object inherits from Object.prototype
ProtoNames == {"toString"}

\* chain names a user config may declare
UserChainNames == {"validate", "A", "B"}

\* step names a user may write in a chain
StepAlphabet == {"A", "B", "lint", "toString"}

\* exit codes a child may report on 'close'; "null" is a child killed by a signal
ExitCodes == {0, 3}

SeqsUpTo(S, n) == UNION {[1..k -> S] : k \in 0..n}

EmptyMap == [k \in {} |-> <<>>]

\* ------------------------------------------------------------------------
\* Configuration (part_001:338-400)
\* ------------------------------------------------------------------------

defaultChains == [k \in {"validate"} |-> <<"format", "lint", "typecheck", "test", "build">>]

\* a bare string entry of commands
StrCmd(s) == [isString |-> TRUE, run |-> s, hasCwd |-> FALSE, cwd |-> ""]
\* an object entry {run, cwd?} of commands
ObjCmd(r, hasCwd, c) == [isString |-> FALSE, run |-> r, hasCwd |-> hasCwd, cwd |-> c]
\* CommandDef
CommandDef(r, hasCwd, c) == [run |-> r, hasCwd |-> hasCwd, cwd |-> c]

UserCommands ==
  [k \in {"A", "B", "lint"} |->
     CASE k = "A" -> StrCmd("run-a")
       [] k = "B" -> StrCmd("")
       [] OTHER   -> ObjCmd("my-lint", TRUE, "./pkg")]

\* TsBuildsConfig: a JSON object; has = the fields that are present
JsonObject(has, srcDir, testDir, validateChain, chains, commands) ==
  [t |-> "object", has |-> has, srcDir |-> srcDir, testDir |-> testDir,
   validateChain |-> validateChain, chains |-> chains, commands |-> commands]

\* {} : the initial value of userConfig
EmptyObject == JsonObject({}, "", "", <<>>, EmptyMap, EmptyMap)

\* a JSON value that is not an object: null, a scalar (number, string,
\* boolean) or an array; none of them has a config field of its own
JsonOther(t) == [EmptyObject EXCEPT !.t = t]

\* the srcDir / testDir / commands part of the user configs considered
MiscVariants ==
  { [has |-> {}, srcDir |-> "", testDir |-> "", commands |-> EmptyMap],
    [has |-> {"srcDir", "testDir", "commands"}, srcDir |-> "./lib",
     testDir |-> "./spec", commands |-> UserCommands] }

\* the validateChain / chains part: a flat list of at most MaxTotalSteps step
\* names cut into validateChain, chains.validate, chains.A, chains.B; an
\* absent field or key has no steps
ChainVariants ==
  { [hasVC |-> hasVC, hasChains |-> hasChains, keys |-> keys,
     validateChain |-> SubSeq(flat, 1, i),
     chains |-> [k \in keys |->
                   CASE k = "validate" -> SubSeq(flat, i + 1, j)
                     [] k = "A"        -> SubSeq(flat, j + 1, m)
                     [] OTHER          -> SubSeq(flat, m + 1, Len(flat))]] :
      <<flat, i, j, m, hasVC, hasChains, keys>> \in
        { x \in SeqsUpTo(StepAlphabet, MaxTotalSteps) \X (0..MaxTotalSteps)
                \X (0..MaxTotalSteps) \X (0..MaxTotalSteps) \X BOOLEAN \X BOOLEAN
                \X SUBSET UserChainNames :
            /\ x[2] <= x[3] /\ x[3] <= x[4] /\ x[4] <= Len(x[1])
            /\ (~x[5] => x[2] = 0)
            /\ (~x[6] => x[7] = {})
            /\ ("validate" \notin x[7] => x[3] = x[2])
            /\ ("A" \notin x[7] => x[4] = x[3])
            /\ ("B" \notin x[7] => x[4] = Len(x[1])) } }

\* the states of ts-builds.config.json
Files ==
  { [kind |-> "absent", json |-> EmptyObject],
    [kind |-> "garbage", json |-> EmptyObject],
    [kind |-> "json", json |-> JsonOther("null")],
    [kind |-> "json", json |-> JsonOther("scalar")],
    [kind |-> "json", json |-> JsonOther("array")] }
  \cup
  { [kind |-> "json",
     json |-> JsonObject(m.has \cup (IF c.hasVC THEN {"validateChain"} ELSE {})
                               \cup (IF c.hasChains THEN {"chains"} ELSE {}),
                         m.srcDir, m.testDir, c.validateChain, c.chains, m.commands)] :
      <<m, c>> \in MiscVariants \X ChainVariants }

\* does reading userConfig.<f> give a defined (and here truthy) value
HasField(userConfig, f) == userConfig.t = "object" /\ f \in userConfig.has

\* Object.assign(target, source) / {...a, ...b}
ObjectAssign(target, source) ==
  [k \in DOMAIN target \cup DOMAIN source |->
     IF k \in DOMAIN source THEN source[k] ELSE target[k]]

\* a normalisation that keeps only the run string of an entry
NormalizeCommand_dropsCwd(cmd) == CommandDef(cmd.run, FALSE, "")

\* typeof cmd === "string" ? { run: cmd } : cmd
NormalizeCommand(cmd) ==
  IF cmd.isString THEN CommandDef(cmd.run, FALSE, "")
  ELSE CommandDef(cmd.run, cmd.hasCwd, cmd.cwd)

\* existsSync + JSON.parse in try/catch: the value of userConfig
ReadUserConfig(file) ==
  IF file.kind = "json" THEN file.json ELSE EmptyObject

\* loadConfig where validateChain is applied after the chains mapping
loadConfig_validateChainLast(file) ==
  LET userConfig == ReadUserConfig(file)
      commands == IF HasField(userConfig, "commands")
                  THEN [k \in DOMAIN userConfig.commands |->
                          NormalizeCommand(userConfig.commands[k])]
                  ELSE EmptyMap
      chains1 == IF HasField(userConfig, "chains")
                 THEN ObjectAssign(defaultChains, userConfig.chains)
                 ELSE defaultChains
      chains2 == IF HasField(userConfig, "validateChain")
                 THEN ObjectAssign(chains1,
                        [k \in {"validate"} |-> userConfig.validateChain])
                 ELSE chains1
  IN IF userConfig.t = "null"
     THEN [threw |-> TRUE, srcDir |-> "", testDir |-> "",
           commands |-> EmptyMap, chains |-> EmptyMap]
     ELSE [threw |-> FALSE,
           srcDir |-> IF HasField(userConfig, "srcDir") THEN userConfig.srcDir ELSE "./src",
           testDir |-> IF HasField(userConfig, "testDir") THEN userConfig.testDir ELSE "./test",
           commands |-> commands,
           chains |-> chains2]

\* loadConfig: threw = TRUE models the TypeError of reading a property of null
loadConfig(file) ==
  LET userConfig == ReadUserConfig(file)
      commands == IF HasField(userConfig, "commands")
                  THEN [k \in DOMAIN userConfig.commands |->
                          NormalizeCommand(userConfig.commands[k])]
                  ELSE EmptyMap
      chains0 == defaultChains
      chains1 == IF HasField(userConfig, "validateChain")
                 THEN ObjectAssign(chains0,
                        [k \in {"validate"} |-> userConfig.validateChain])
                 ELSE chains0
      chains2 == IF HasField(userConfig, "chains")
                 THEN ObjectAssign(chains1, userConfig.chains)
                 ELSE chains1
  IN IF userConfig.t = "null"
     THEN [threw |-> TRUE, srcDir |-> "", testDir |-> "",
           commands |-> EmptyMap, chains |-> EmptyMap]
     ELSE [threw |-> FALSE,
           srcDir |-> IF HasField(userConfig, "srcDir") THEN userConfig.srcDir ELSE "./src",
           testDir |-> IF HasField(userConfig, "testDir") THEN userConfig.testDir ELSE "./test",
           commands |-> commands,
           chains |-> chains2]

\* ------------------------------------------------------------------------
\* Built-in commands (part_001:795-812)
\* ------------------------------------------------------------------------

BuiltinNames ==
  {"format", "format:check", "lint", "lint:check", "typecheck", "ts-types",
   "test", "test:watch", "test:coverage", "test:ui", "build", "build:watch",
   "dev", "compile"}

\* getBuiltinCommands without the alias of typecheck (line 802 left out)
getBuiltinCommands_noTsTypes(config) ==
  [k \in BuiltinNames \ {"ts-types"} |->
     CommandDef(
       CASE k = "format"        -> "prettier --write ."
         [] k = "format:check"  -> "prettier --check ."
         [] k = "lint"          -> "eslint --fix " \o config.srcDir
         [] k = "lint:check"    -> "eslint " \o config.srcDir
         [] k = "typecheck"     -> "tsc --noEmit"
         [] k = "test"          -> "vitest run"
         [] k = "test:watch"    -> "vitest"
         [] k = "test:coverage" -> "vitest run --coverage"
         [] k = "test:ui"       -> "vitest --ui"
         [] k = "build"         -> "rimraf dist && cross-env NODE_ENV=production tsdown"
         [] k = "build:watch"   -> "tsdown --watch"
         [] k = "dev"           -> "tsdown --watch"
         [] OTHER               -> "tsc",
       FALSE, "")]

getBuiltinCommands(config) ==
  [k \in BuiltinNames |->
     CommandDef(
       CASE k = "format"        -> "prettier --write ."
         [] k = "format:check"  -> "prettier --check ."
         [] k = "lint"          -> "eslint --fix " \o config.srcDir
         [] k = "lint:check"    -> "eslint " \o config.srcDir
         [] k = "typecheck"     -> "tsc --noEmit"
         [] k = "ts-types"      -> "tsc --noEmit"
         [] k = "test"          -> "vitest run"
         [] k = "test:watch"    -> "vitest"
         [] k = "test:coverage" -> "vitest run --coverage"
         [] k = "test:ui"       -> "vitest --ui"
         [] k = "build"         -> "rimraf dist && cross-env NODE_ENV=production tsdown"
         [] k = "build:watch"   -> "tsdown --watch"
         [] k = "dev"           -> "tsdown --watch"
         [] OTHER               -> "tsc",
       FALSE, "")]

\* ------------------------------------------------------------------------
\* Property reads on plain objects
\* ------------------------------------------------------------------------

\* obj[k] is not undefined: k is an own key or a member of Object.prototype
Defined(obj, k) == k \in DOMAIN obj \/ k \in ProtoNames

\* obj[k] is an own value of the map (as opposed to an inherited function)
Own(obj, k) == k \in DOMAIN obj

\* ------------------------------------------------------------------------
\* .npmrc and init (part_001:494-532, 702-712)
\* ------------------------------------------------------------------------

requiredHoistPatterns ==
  << "public-hoist-pattern[]=*eslint*",
     "public-hoist-pattern[]=*prettier*",
     "public-hoist-pattern[]=*vitest*",
     "public-hoist-pattern[]=typescript",
     "public-hoist-pattern[]=*rimraf*",
     "public-hoist-pattern[]=*cross-env*" >>

header == "# Hoist CLI tool binaries from peer dependencies"

NL == "\n"

\* The text of .npmrc is a sequence of fragments: a required pattern, the
\* header, a line break, or "#", which stands for any other text without a
\* line break (a comment mark before a pattern, a suffix after it, a
\* setting of its own).  The text is the concatenation of its fragments,
\* and no fragment occurs inside another or across two others.
NpmrcFragments ==
  {requiredHoistPatterns[1], requiredHoistPatterns[4], header, NL, "#"}

NoNpmrc == [exists |-> FALSE, text |-> <<>>]

NpmrcFiles ==
  {NoNpmrc} \cup
  {[exists |-> TRUE, text |-> t] : t \in SeqsUpTo(NpmrcFragments, MaxNpmrcLen)}

\* String.prototype.includes for a pattern or the header
Includes(text, s) == \E i \in 1..Len(text) : text[i] = s

\* String.prototype.endsWith for the line break
EndsWith(text, s) == Len(text) > 0 /\ text[Len(text)] = s

\* the loop of lines 523-528 without the test of lines 524-526
RECURSIVE AppendPatterns_noLineBreak(_, _)
AppendPatterns_noLineBreak(newContent, patterns) ==
  IF patterns = <<>> THEN newContent
  ELSE AppendPatterns_noLineBreak(newContent \o <<Head(patterns), NL>>, Tail(patterns))

\* the loop of lines 523-528 stopping one pattern early
RECURSIVE AppendPatterns_skipsLast(_, _)
AppendPatterns_skipsLast(newContent, patterns) ==
  IF Len(patterns) <= 1 THEN newContent
  ELSE LET c == IF ~EndsWith(newContent, NL) /\ Len(newContent) > 0
                THEN Append(newContent, NL)
                ELSE newContent
       IN AppendPatterns_skipsLast(c \o <<Head(patterns), NL>>, Tail(patterns))

\* the loop of lines 523-528
RECURSIVE AppendPatterns(_, _)
AppendPatterns(newContent, patterns) ==
  IF patterns = <<>> THEN newContent
  ELSE LET c == IF ~EndsWith(newContent, NL) /\ Len(newContent) > 0
                THEN Append(newContent, NL)
                ELSE newContent
       IN AppendPatterns(c \o <<Head(patterns), NL>>, Tail(patterns))

IsMissing(existingContent, pattern) == ~Includes(existingContent, pattern)

\* ensureNpmrcHoistPatterns (lines 503-532): whether the file was written,
\* the file afterwards, and the number of patterns reported
ensureNpmrcHoistPatterns(f) ==
  LET existingContent == IF f.exists THEN f.text ELSE <<>>
      missingPatterns == SelectSeq(requiredHoistPatterns,
                                   LAMBDA pattern : IsMissing(existingContent, pattern))
      hasHeader == Includes(existingContent, header)
      separator ==
        IF Len(existingContent) > 0 /\ ~EndsWith(existingContent, NL) THEN <<NL, NL>>
        ELSE IF Len(existingContent) > 0 THEN <<NL>>
        ELSE <<>>
      newContent ==
        IF ~hasHeader /\ Len(missingPatterns) > 0
        THEN existingContent \o separator \o <<header, NL>>
        ELSE existingContent
  IN IF Len(missingPatterns) = 0
     THEN [wrote |-> FALSE, file |-> f, missing |-> 0]
     ELSE [wrote |-> TRUE,
           file |-> [exists |-> TRUE,
                     text |-> AppendPatterns(newContent, missingPatterns)],
           missing |-> Len(missingPatterns)]

\* ------------------------------------------------------------------------
\* package.json (part_001:465-492)
\* ------------------------------------------------------------------------

bundledPackages ==
  {"@eslint/eslintrc", "@eslint/js", "@typescript-eslint/eslint-plugin",
   "@typescript-eslint/parser", "@vitest/coverage-v8", "@vitest/ui",
   "cross-env", "eslint", "eslint-config-prettier", "eslint-plugin-import",
   "eslint-plugin-prettier", "eslint-plugin-simple-import-sort", "prettier",
   "rimraf", "ts-node", "typescript", "vitest"}

\* the package names of the package.json files considered
PackageNames == {"eslint", "vitest", "tsdown"}

\* a dependency map: package name -> version range
DepMaps == UNION {[S -> {"^1.0.0"}] : S \in SUBSET PackageNames}

\* package.json: absent, not JSON, or an object with the fields name and,
\* when hasDev / hasDeps, devDependencies / dependencies
PackageJsonObject(hasDev, dev, hasDeps, deps) ==
  [kind |-> "json", name |-> "app",
   hasDev |-> hasDev, devDependencies |-> dev,
   hasDeps |-> hasDeps, dependencies |-> deps]

NoPackageJson == [PackageJsonObject(FALSE, EmptyMap, FALSE, EmptyMap) EXCEPT !.kind = "absent"]

PackageJsons ==
  { NoPackageJson, [NoPackageJson EXCEPT !.kind = "garbage"] }
  \cup
  { PackageJsonObject(hasDev, dev, hasDeps, deps) :
      <<hasDev, dev, hasDeps, deps>> \in
        { x \in BOOLEAN \X DepMaps \X BOOLEAN \X DepMaps :
            /\ (~x[1] => x[2] = EmptyMap)
            /\ (~x[3] => x[4] = EmptyMap) } }

\* the bundled packages a dependency map lists (`pkg in devDeps`)
Redundant(deps) == DOMAIN deps \cap bundledPackages

\* the forEach of lines 679-680: delete deps[pkg] for every redundant pkg
DeleteAll(deps, pkgs) == [k \in DOMAIN deps \ pkgs |-> deps[k]]

\* lines 678-695: the package.json that is written; a map left without
\* entries is deleted from it
RemoveRedundant(pj) ==
  LET devDeps == DeleteAll(pj.devDependencies, Redundant(pj.devDependencies))
      deps    == DeleteAll(pj.dependencies, Redundant(pj.dependencies))
  IN [pj EXCEPT !.devDependencies = devDeps,
                !.hasDev = (DOMAIN devDeps # {}),
                !.dependencies = deps,
                !.hasDeps = (DOMAIN deps # {})]

\* the lines typed at the prompt "Remove these packages? (y/N)"
Answers == {"y", "YES", "n", ""}

\* String.prototype.toLowerCase on the answers
ToLowerCase(a) == IF a = "YES" THEN "yes" ELSE a

\* ------------------------------------------------------------------------
\* State
\* ------------------------------------------------------------------------

VARIABLES
  file,      \* ts-builds.config.json on disk
  npmrc,     \* .npmrc on disk
  packageJson, \* package.json on disk
  argv2,     \* process.argv[2], "" when absent
  pc,        \* "init", "awaitChain" (runChain suspended on a child),
             \* "awaitCmd" (main suspended on a child), "awaitAnswer"
             \* (cleanup suspended on the prompt), "exited"
  command,   \* const command = process.argv[2] || "init"
  config,    \* the ResolvedConfig of this invocation
  stack,     \* the active runChain calls, outermost first: [name, idx]
  visited,   \* the Set shared by the runChain calls of one invocation
  children,  \* every child process spawned so far, in spawn order
  promise,   \* the promise of the last runShellCommand call
  log,       \* the diagnostic lines on the terminal (console.error, the
             \* outcome lines of createConfig, init and cleanup, and the
             \* line typed at the prompt of cleanup)
  exitCode,  \* the exit code of the CLI process, NoCode while it runs
  subCommand \* process.argv[3], "" when absent

vars == <<file, npmrc, packageJson, argv2, pc, command, config, stack, visited, children, promise, log,
          exitCode, subCommand>>

NoCode == -1

NoConfig == [threw |-> FALSE, srcDir |-> "", testDir |-> "",
             commands |-> EmptyMap, chains |-> EmptyMap]

NoPromise == [settled |-> FALSE, value |-> 0]

\* the names the CLI is invoked with
CliCommands == {"", "init", "cleanup", "compile", "validate", "lint", "config", "A", "B", "toString"}

\* the second argument the CLI is invoked with; only the cases lint
\* (subCommand === "check") and config (argv.includes("--force")) read it
SubCommands(cmd) ==
  CASE cmd = "lint"   -> {"", "check"}
    [] cmd = "config" -> {"", "--force", "-f"}
    [] cmd = "cleanup" -> {"", "--yes", "-y"}
    [] OTHER          -> {""}

\* ------------------------------------------------------------------------
\* runShellCommand (part_001:431-450)
\* ------------------------------------------------------------------------

\* a runner whose promise is never resolved (no resolve() in the handlers)
Resolve_never(p, v) == p

\* a result cell that every resolve() call overwrites
Resolve_lastWins(p, v) == [settled |-> TRUE, value |-> v]

\* resolve(v) of a promise: only the first call has an effect
Resolve(p, v) == IF p.settled THEN p ELSE [settled |-> TRUE, value |-> v]

\* an await that does not wait for the child to report
Settled_noWait(p) == TRUE

\* the await of a promise continues once the promise is settled
Settled(p) == p.settled

\* code ?? 1
CloseValue(code) == IF code.isNull THEN 1 ELSE code.n

\* the (code) argument of the 'close' event of a child that ran
CloseCodes ==
  {[isNull |-> FALSE, n |-> c] : c \in ExitCodes} \cup {[isNull |-> TRUE, n |-> 0]}

\* the code field of a child that has not reported 'close'
NoChildCode == [isNull |-> TRUE, n |-> 0]

\* errno reported by 'close' after a failed spawn (ENOENT)
SpawnErrno == -2

\* join(targetDir, p) for the directories of the configs considered
PathJoin(p) ==
  CASE p = ""      -> "<root>"
    [] p = "./pkg" -> "<root>/pkg"
    [] OTHER       -> "<root>/" \o p

\* options.cwd ? join(targetDir, options.cwd) : targetDir
ResolveCwd(cmdDef) ==
  IF cmdDef.hasCwd /\ cmdDef.cwd # "" THEN PathJoin(cmdDef.cwd) ELSE "<root>"

\* spawn() validates its file argument before it starts anything and throws
\* ERR_INVALID_ARG_VALUE for an empty string; thrown inside the Promise
\* executor, this rejects the promise of the runner
SpawnThrows(cmdDef) == cmdDef.run = ""

\* a runner that changes the directory of the process for a step with a cwd,
\* so that later steps without one inherit it
SpawnChild_inheritsCwd(cmdDef, ok) ==
  [run |-> cmdDef.run,
   cwd |-> IF cmdDef.hasCwd /\ cmdDef.cwd # "" THEN ResolveCwd(cmdDef)
           ELSE IF children # <<>> THEN children[Len(children)].cwd
           ELSE "<root>",
   state |-> IF ok THEN "running" ELSE "spawnfail",
   code |-> NoChildCode]

\* spawn(shellCmd, {cwd, stdio, shell}): the child object; ok = the shell started
SpawnChild(cmdDef, ok) ==
  [run |-> cmdDef.run,
   cwd |-> ResolveCwd(cmdDef),
   state |-> IF ok THEN "running" ELSE "spawnfail",
   code |-> NoChildCode]

\* ------------------------------------------------------------------------
\* runChain (part_001:814-859)
\* ------------------------------------------------------------------------

\* a synchronous stretch of runChain works on r = [stack, visited, log,
\* status, code, cmd]; status is "await" (a step's command is to be spawned),
\* "returned" (the outermost call returned code) or "threw" (TypeError)
NoCmd == CommandDef("", FALSE, "")

LogLine(kind, name, code) == [kind |-> kind, name |-> name, code |-> code]

RECURSIVE runChainCall(_, _, _), runChainLoop(_, _), runChainReturn(_, _, _)

\* runChainReturn where the caller returns whatever the nested chain returned
\* (`return await runChain(...)` instead of lines 835-837)
runChainReturn_noContinue(cfg, r, code) ==
  LET rest == SubSeq(r.stack, 1, Len(r.stack) - 1)
  IN IF Len(rest) = 0
     THEN [r EXCEPT !.stack = rest, !.status = "returned", !.code = code]
     ELSE runChainReturn(cfg, [r EXCEPT !.stack = rest], code)

\* runChainReturn of a runChain that forgets a chain when its call returns 0
\* (visited.delete(chainName) before line 858)
runChainReturn_prunesVisited(cfg, r, code) ==
  LET rest == SubSeq(r.stack, 1, Len(r.stack) - 1)
      n == Len(rest)
      r0 == IF code = 0
            THEN [r EXCEPT !.visited = @ \ {r.stack[Len(r.stack)].name}]
            ELSE r
  IN IF n = 0
     THEN [r0 EXCEPT !.stack = rest, !.status = "returned", !.code = code]
     ELSE IF code # 0
          THEN runChainReturn(cfg, [r0 EXCEPT !.stack = rest], code)
          ELSE runChainLoop(cfg, [r0 EXCEPT !.stack =
                                    [rest EXCEPT ![n].idx = rest[n].idx + 1]])

\* return code from the innermost active call (lines 818, 825, 836, 844,
\* 853, 858); the caller returns a non-zero code itself and otherwise
\* continues with its next step
runChainReturn(cfg, r, code) ==
  LET rest == SubSeq(r.stack, 1, Len(r.stack) - 1)
      n == Len(rest)
  IN IF n = 0
     THEN [r EXCEPT !.stack = rest, !.status = "returned", !.code = code]
     ELSE IF code # 0
          THEN runChainReturn(cfg, [r EXCEPT !.stack = rest], code)
          ELSE runChainLoop(cfg, [r EXCEPT !.stack =
                                    [rest EXCEPT ![n].idx = rest[n].idx + 1]])

\* runChainLoop where an unknown step is reported and skipped
runChainLoop_skipUnknown(cfg, r) ==
  LET top == r.stack[Len(r.stack)]
      chain == cfg.chains[top.name]
      step == chain[top.idx]
      builtins == getBuiltinCommands(cfg)
  IN IF top.idx > Len(chain)
     THEN runChainReturn(cfg, r, 0)
     ELSE IF Defined(cfg.chains, step)
     THEN runChainCall(cfg, r, step)
     ELSE IF ~(Defined(cfg.commands, step) \/ Defined(builtins, step))
     THEN runChainLoop(cfg,
            [r EXCEPT !.log = Append(@, LogLine("unknownStep", step, 1)),
                      !.stack[Len(r.stack)].idx = @ + 1])
     ELSE [r EXCEPT !.status = "await",
                    !.cmd = IF Own(cfg.commands, step) THEN cfg.commands[step]
                            ELSE builtins[step]]

\* runChainLoop where an unknown step is reported and the call returns 0
runChainLoop_unknownReturns0(cfg, r) ==
  LET top == r.stack[Len(r.stack)]
      chain == cfg.chains[top.name]
      step == chain[top.idx]
      builtins == getBuiltinCommands(cfg)
  IN IF top.idx > Len(chain)
     THEN runChainReturn(cfg, r, 0)
     ELSE IF Defined(cfg.chains, step)
     THEN runChainCall(cfg, r, step)
     ELSE IF ~(Defined(cfg.commands, step) \/ Defined(builtins, step))
     THEN runChainReturn(cfg,
            [r EXCEPT !.log = Append(@, LogLine("unknownStep", step, 1))], 0)
     ELSE [r EXCEPT !.status = "await",
                    !.cmd = IF Own(cfg.commands, step) THEN cfg.commands[step]
                            ELSE builtins[step]]

\* the for loop of the innermost active call, from its step idx on
\* (lines 832-858), up to the next spawn
runChainLoop(cfg, r) ==
  LET top == r.stack[Len(r.stack)]
      chain == cfg.chains[top.name]
      step == chain[top.idx]
      builtins == getBuiltinCommands(cfg)
  IN IF top.idx > Len(chain)
     THEN runChainReturn(cfg, r, 0)
     ELSE IF Defined(cfg.chains, step)
     THEN runChainCall(cfg, r, step)
     ELSE IF ~(Defined(cfg.commands, step) \/ Defined(builtins, step))
     THEN runChainReturn(cfg,
            [r EXCEPT !.log = Append(@, LogLine("unknownStep", step, 1))], 1)
     ELSE [r EXCEPT !.status = "await",
                    !.cmd = IF Own(cfg.commands, step) THEN cfg.commands[step]
                            ELSE builtins[step]]

\* runChainCall where the circular reference is reported but returns 0
runChainCall_cycleReturns0(cfg, r, chainName) ==
  LET r1 == [r EXCEPT !.stack = Append(@, [name |-> chainName, idx |-> 1])]
      r2 == [r1 EXCEPT !.visited = @ \cup {chainName}]
  IN IF chainName \in r.visited
     THEN runChainReturn(cfg,
            [r1 EXCEPT !.log = Append(@, LogLine("circular", chainName, 1))], 0)
     ELSE IF ~Defined(cfg.chains, chainName)
     THEN runChainReturn(cfg,
            [r2 EXCEPT !.log = Append(@, LogLine("unknownChain", chainName, 1))], 1)
     ELSE IF ~Own(cfg.chains, chainName)
     THEN [r2 EXCEPT !.status = "threw",
                     !.log = Append(@, LogLine("TypeError", chainName, 1))]
     ELSE runChainLoop(cfg,
            [r2 EXCEPT !.log = Append(@, LogLine("chain", chainName, 0))])

\* runChain(chainName, config, visited) up to its first spawn (lines 814-830)
runChainCall(cfg, r, chainName) ==
  LET r1 == [r EXCEPT !.stack = Append(@, [name |-> chainName, idx |-> 1])]
      r2 == [r1 EXCEPT !.visited = @ \cup {chainName}]
  IN IF chainName \in r.visited
     THEN runChainReturn(cfg,
            [r1 EXCEPT !.log = Append(@, LogLine("circular", chainName, 1))], 1)
     ELSE IF ~Defined(cfg.chains, chainName)
     THEN runChainReturn(cfg,
            [r2 EXCEPT !.log = Append(@, LogLine("unknownChain", chainName, 1))], 1)
     ELSE IF ~Own(cfg.chains, chainName)
     THEN \* chain.join is not a function
          [r2 EXCEPT !.status = "threw",
                     !.log = Append(@, LogLine("TypeError", chainName, 1))]
     ELSE runChainLoop(cfg,
            [r2 EXCEPT !.log = Append(@, LogLine("chain", chainName, 0))])

\* runChainResume without the `if (code !== 0)` test of line 851
runChainResume_noFailFast(cfg, r, code) ==
  runChainLoop(cfg, [r EXCEPT !.stack[Len(r.stack)].idx = @ + 1])

\* runChainResume where the loop passes over the step after a successful one
runChainResume_skipsNext(cfg, r, code) ==
  LET n == Len(r.stack)
      step == cfg.chains[r.stack[n].name][r.stack[n].idx]
  IN IF code # 0
     THEN runChainReturn(cfg,
            [r EXCEPT !.log = Append(@, LogLine("failed", step, code))], code)
     ELSE runChainLoop(cfg,
            [r EXCEPT !.stack[n].idx =
               IF @ + 2 <= Len(cfg.chains[r.stack[n].name]) + 1 THEN @ + 2 ELSE @ + 1])

\* the continuation of the innermost call after its child reported code
\* (lines 850-856)
runChainResume(cfg, r, code) ==
  LET n == Len(r.stack)
      step == cfg.chains[r.stack[n].name][r.stack[n].idx]
  IN IF code # 0
     THEN runChainReturn(cfg,
            [r EXCEPT !.log = Append(@, LogLine("failed", step, code))], code)
     ELSE runChainLoop(cfg, [r EXCEPT !.stack[n].idx = @ + 1])

\* ------------------------------------------------------------------------
\* Actions
\* ------------------------------------------------------------------------

\* the process is started: nothing has run yet
Start ==
  /\ pc = "init"
  /\ argv2 = ""
  /\ command = ""
  /\ subCommand = ""
  /\ config = NoConfig
  /\ stack = <<>>
  /\ visited = {}
  /\ children = <<>>
  /\ promise = NoPromise
  /\ log = <<>>
  /\ exitCode = NoCode

\* a project with a package.json that lists a bundled and another package
TypicalPackageJson ==
  PackageJsonObject(TRUE, [k \in {"eslint", "tsdown"} |-> "^1.0.0"], FALSE, EmptyMap)

\* the invocations over the config files, in a project without .npmrc
Init ==
  /\ Start
  /\ file \in Files
  /\ npmrc = NoNpmrc
  /\ packageJson = TypicalPackageJson

\* the invocations over the .npmrc and package.json files, in a project
\* without ts-builds.config.json
SetupInit ==
  /\ Start
  /\ file = [kind |-> "absent", json |-> EmptyObject]
  /\ \/ npmrc \in NpmrcFiles /\ packageJson = TypicalPackageJson
     \/ npmrc = NoNpmrc /\ packageJson \in PackageJsons

\* an uncaught TypeError ends the process with exit code 1
Crash(name) ==
  /\ pc' = "exited"
  /\ exitCode' = 1
  /\ log' = Append(log, LogLine("TypeError", name, 1))
  /\ UNCHANGED <<stack, visited, children, promise>>

\* runShellCommand / runCommand called with cmdDef after the lines lg were
\* logged: either the child is spawned and the caller suspends at nextPc, or
\* spawn throws, the promise is rejected and the rejection reaches the top
\* level uncaught
runShellCommand(cmdDef, ok, lg, nextPc) ==
  IF SpawnThrows(cmdDef)
  THEN /\ pc' = "exited"
       /\ exitCode' = 1
       /\ log' = Append(lg, LogLine("TypeError", "spawn", 1))
       /\ UNCHANGED <<children, promise>>
  ELSE /\ children' = Append(children, SpawnChild(cmdDef, ok))
       /\ promise' = NoPromise
       /\ pc' = nextPc
       /\ log' = lg
       /\ exitCode' = exitCode

\* Continue where a failing run always exits with 1 (process.exit(code ? 1 : 0))
Continue_remapsCode(r, ok) ==
  /\ stack' = IF r.status = "threw" \/ (r.status = "await" /\ SpawnThrows(r.cmd))
              THEN <<>> ELSE r.stack
  /\ visited' = r.visited
  /\ IF r.status = "await"
     THEN runShellCommand(r.cmd, ok, r.log, "awaitChain")
     ELSE /\ pc' = "exited"
          /\ exitCode' = IF r.status = "threw" \/ r.code # 0 THEN 1 ELSE 0
          /\ log' = r.log
          /\ UNCHANGED <<children, promise>>

\* the state after a synchronous stretch r of runChain; ok = the spawn worked
Continue(r, ok) ==
  /\ stack' = IF r.status = "threw" \/ (r.status = "await" /\ SpawnThrows(r.cmd))
              THEN <<>> ELSE r.stack
  /\ visited' = r.visited
  /\ IF r.status = "await"
     THEN runShellCommand(r.cmd, ok, r.log, "awaitChain")
     ELSE /\ pc' = "exited"
          /\ exitCode' = IF r.status = "threw" THEN 1 ELSE r.code
          /\ log' = r.log
          /\ UNCHANGED <<children, promise>>

\* runValidate(chainName) with a fresh visited set (lines 861-864, 814)
runValidate(cfg, chainName, ok) ==
  Continue(runChainCall(cfg,
             [stack |-> <<>>, visited |-> {}, log |-> log,
              status |-> "run", code |-> 0, cmd |-> NoCmd],
             chainName), ok)

\* a default config whose validateChain stops after typecheck
defaultConfig_shortChain ==
  [kind |-> "json",
   json |-> JsonObject({"srcDir", "validateChain"}, "./src", "",
                       <<"format", "lint", "typecheck">>,
                       EmptyMap, EmptyMap)]

\* the file createConfig writes: JSON.stringify(defaultConfig) (lines 723-728)
defaultConfig ==
  [kind |-> "json",
   json |-> JsonObject({"srcDir", "validateChain"}, "./src", "",
                       <<"format", "lint", "typecheck", "test", "build">>,
                       EmptyMap, EmptyMap)]

\* createConfig without the existsSync test of line 717
createConfig_alwaysWrites(force) ==
  /\ file' = defaultConfig
  /\ log' = Append(log, LogLine("created", "config", 0))
  /\ pc' = "exited"
  /\ exitCode' = 0
  /\ UNCHANGED <<npmrc, packageJson, config, stack, visited, children, promise>>

\* createConfig(force) (lines 714-751)
createConfig(force) ==
  /\ IF file.kind # "absent" /\ ~force
     THEN /\ file' = file
          /\ log' = Append(log, LogLine("exists", "config", 0))
     ELSE /\ file' = defaultConfig
          /\ log' = Append(log, LogLine("created", "config", 0))
  /\ pc' = "exited"
  /\ exitCode' = 0
  /\ UNCHANGED <<npmrc, packageJson, config, stack, visited, children, promise>>

\* runLint(check) (lines 762-766): runCommand("eslint", args) hands the
\* command and its arguments to the shell as one line
runLint(cfg, check, ok) ==
  /\ runShellCommand(
       CommandDef(IF check THEN "eslint " \o cfg.srcDir
                  ELSE "eslint --fix " \o cfg.srcDir, FALSE, ""),
       ok, log, "awaitCmd")
  /\ UNCHANGED <<stack, visited>>

\* init() (lines 702-712)
init ==
  LET r == ensureNpmrcHoistPatterns(npmrc)
  IN /\ npmrc' = r.file
     /\ log' = IF r.wrote
               THEN Append(log, LogLine("npmrcUpdated", ".npmrc", r.missing))
               ELSE log
     /\ pc' = "exited"
     /\ exitCode' = 0
     /\ UNCHANGED <<file, packageJson, config, stack, visited, children, promise>>

\* lines 678-700: package.json is rewritten; lg = the lines logged so far
writePackageJson(lg) ==
  /\ packageJson' = RemoveRedundant(packageJson)
  /\ log' = Append(lg, LogLine("removed", "package.json",
                     Cardinality(Redundant(packageJson.devDependencies))
                       + Cardinality(Redundant(packageJson.dependencies))))
  /\ pc' = "exited"
  /\ exitCode' = 0

\* cleanup() up to its first await (lines 626-668); autoConfirm = argv has
\* --yes or -y
cleanup(autoConfirm) ==
  /\ UNCHANGED <<file, npmrc, config, stack, visited, children, promise>>
  /\ IF packageJson.kind = "absent"
     THEN /\ pc' = "exited" /\ exitCode' = 1
          /\ log' = Append(log, LogLine("noPackageJson", "package.json", 1))
          /\ packageJson' = packageJson
     ELSE IF packageJson.kind = "garbage"
     THEN /\ pc' = "exited" /\ exitCode' = 1
          /\ log' = Append(log, LogLine("SyntaxError", "package.json", 1))
          /\ packageJson' = packageJson
     ELSE IF /\ Redundant(packageJson.devDependencies) = {}
             /\ Redundant(packageJson.dependencies) = {}
     THEN /\ pc' = "exited" /\ exitCode' = 0
          /\ log' = Append(log, LogLine("clean", "package.json", 0))
          /\ packageJson' = packageJson
     ELSE IF autoConfirm
     THEN writePackageJson(log)
     ELSE /\ pc' = "awaitAnswer"
          /\ UNCHANGED <<packageJson, log, exitCode>>

\* the user answers the prompt and cleanup continues (lines 667-700)
onAnswer(answer) ==
  /\ pc = "awaitAnswer"
  /\ IF ToLowerCase(answer) # "y" /\ ToLowerCase(answer) # "yes"
     THEN /\ log' = Append(Append(log, LogLine("answer", answer, 0)),
                           LogLine("cancelled", "package.json", 0))
          /\ pc' = "exited"
          /\ exitCode' = 0
          /\ packageJson' = packageJson
     ELSE writePackageJson(Append(log, LogLine("answer", answer, 0)))
  /\ UNCHANGED <<file, npmrc, argv2, command, subCommand, config, stack, visited,
                 children, promise>>

\* a CLI whose default command is validate
Command_defaultValidate(arg) == IF arg = "" THEN "validate" ELSE arg

\* process.argv[2] || "init" (line 871)
Command(arg) == IF arg = "" THEN "init" ELSE arg

\* the main switch (lines 871-954), cases lint, validate, init, config and
\* default, for the command line `ts-builds arg sub`
main(arg, sub, ok) ==
  LET cmd == Command(arg) IN
  /\ pc = "init"
  /\ argv2' = arg
  /\ command' = cmd
  /\ subCommand' = sub
  /\ IF cmd = "config"
     THEN createConfig(sub \in {"--force", "-f"})
     ELSE IF cmd = "init"
     THEN init
     ELSE IF cmd = "cleanup"
     THEN cleanup(sub \in {"--yes", "-y"})
     ELSE
       /\ UNCHANGED <<file, npmrc, packageJson>>
       /\ LET cfg == loadConfig(file)
          IN IF cfg.threw
             THEN Crash("loadConfig") /\ config' = config
             ELSE /\ config' = cfg
                  /\ IF cmd = "lint"
                     THEN runLint(cfg, sub = "check", ok)
                     ELSE IF cmd = "validate"
                     THEN runValidate(cfg, "validate", ok)
                     ELSE IF Defined(cfg.chains, cmd)
                     THEN runValidate(cfg, cmd, ok)
                     ELSE IF Defined(cfg.commands, cmd)
                     THEN /\ runShellCommand(cfg.commands[cmd], ok, log, "awaitCmd")
                          /\ UNCHANGED <<stack, visited>>
                     ELSE /\ pc' = "exited"
                          /\ exitCode' = 1
                          /\ log' = Append(log, LogLine("unknownCommand", cmd, 1))
                          /\ UNCHANGED <<stack, visited, children, promise>>

\* the running child exits: 'close' (lines 441-443)
onClose(code) ==
  /\ pc \in {"awaitChain", "awaitCmd"}
  /\ children # <<>>
  /\ children[Len(children)].state = "running"
  /\ children' = [children EXCEPT ![Len(children)].state = "closed",
                                  ![Len(children)].code = code]
  /\ promise' = Resolve(promise, CloseValue(code))
  /\ UNCHANGED <<file, npmrc, packageJson, argv2, pc, command, subCommand, config, stack, visited, log, exitCode>>

\* the spawn failed: 'error' (lines 445-448), then 'close' with the errno
onError ==
  /\ pc \in {"awaitChain", "awaitCmd"}
  /\ children # <<>>
  /\ children[Len(children)].state = "spawnfail"
  /\ children' = [children EXCEPT ![Len(children)].state = "errored"]
  /\ promise' = Resolve(Resolve(promise, 1),
                        CloseValue([isNull |-> FALSE, n |-> SpawnErrno]))
  /\ UNCHANGED <<file, npmrc, packageJson, argv2, pc, command, subCommand, config, stack, visited, log, exitCode>>

\* a runChain that consumes its chain with chain.shift() while it iterates
resumeChain_shiftsChain(ok) ==
  /\ pc = "awaitChain"
  /\ Settled(promise)
  /\ Continue(runChainResume(config,
                [stack |-> stack, visited |-> visited, log |-> log,
                 status |-> "run", code |-> 0, cmd |-> NoCmd],
                promise.value), ok)
  /\ config' = [config EXCEPT !.chains[stack[Len(stack)].name] = Tail(@)]
  /\ UNCHANGED <<file, npmrc, packageJson, argv2, command, subCommand>>

\* runChain continues after `await runShellCommand` (lines 850-856)
resumeChain(ok) ==
  /\ pc = "awaitChain"
  /\ Settled(promise)
  /\ Continue(runChainResume(config,
                [stack |-> stack, visited |-> visited, log |-> log,
                 status |-> "run", code |-> 0, cmd |-> NoCmd],
                promise.value), ok)
  /\ UNCHANGED <<file, npmrc, packageJson, argv2, command, subCommand, config>>

\* main continues after `await runShellCommand` (lines 945-946) or after
\* `await runLint` (line 898)
resumeMain ==
  /\ pc = "awaitCmd"
  /\ Settled(promise)
  /\ pc' = "exited"
  /\ exitCode' = promise.value
  /\ UNCHANGED <<file, npmrc, packageJson, argv2, command, subCommand, config, stack, visited, children, promise, log>>

Next ==
  \/ \E cmd \in CliCommands, ok \in BOOLEAN : \E sub \in SubCommands(cmd) : main(cmd, sub, ok)
  \/ \E code \in CloseCodes : onClose(code)
  \/ onError
  \/ \E ok \in BOOLEAN : resumeChain(ok)
  \/ resumeMain
  \/ \E answer \in Answers : onAnswer(answer)

Spec == Init /\ [][Next]_vars

SetupSpec == SetupInit /\ [][Next]_vars

\* The scheduling the runtime gives: the script runs once the process is
\* started; every spawned child eventually exits, or its spawn failure is
\* eventually reported; the event loop eventually runs the continuation of
\* an await whose promise is settled.
Fairness ==
  /\ WF_vars(\E cmd \in CliCommands, ok \in BOOLEAN :
               \E sub \in SubCommands(cmd) : main(cmd, sub, ok))
  /\ WF_vars(\E code \in CloseCodes : onClose(code))
  /\ WF_vars(onError)
  /\ WF_vars(\E ok \in BOOLEAN : resumeChain(ok))
  /\ WF_vars(resumeMain)

\* the number of steps a config file declares, over validateChain and chains
RECURSIVE SumLen(_, _)
SumLen(chains, S) ==
  IF S = {} THEN 0
  ELSE LET k == CHOOSE x \in S : TRUE
       IN Len(chains[k]) + SumLen(chains, S \ {k})

ConfigSteps(f) ==
  Len(f.json.validateChain) + SumLen(f.json.chains, DOMAIN f.json.chains)

\* the invocations over the config files of at most MaxLiveSteps steps
LiveInit == Init /\ ConfigSteps(file) <= MaxLiveSteps

LiveSpec == LiveInit /\ [][Next]_vars /\ Fairness

\* ------------------------------------------------------------------------
\* Vocabulary of the properties
\* ------------------------------------------------------------------------

\* the child has reported its end to the runner ('close' or 'error')
Reported(c) == c.state \in {"closed", "errored"}

\* the child ran and exited with code n
ExitedWith(c, n) == c.state = "closed" /\ ~c.code.isNull /\ c.code.n = n

\* the child ran and exited with a non-zero code
ExitedNonZero(c) == c.state = "closed" /\ ~c.code.isNull /\ c.code.n # 0

\* the invocation runs a chain (validate, or a named chain through default)
IsChainRun == pc # "init" /\ ~config.threw /\ command \in DOMAIN config.chains

\* the lines written with console.error (all but "Running chain: ...")
Errors == SelectSeq(log, LAMBDA l : l.kind # "chain")

HasLog(kind) == \E i \in 1..Len(log) : log[i].kind = kind

\* loadConfig returned a ResolvedConfig to main
Loaded == pc # "init" /\ config # NoConfig

\* the config file holds a JSON object with field f
UserHas(f) == file.kind = "json" /\ file.json.t = "object" /\ f \in file.json.has

\* what a step name stands for, by the stated precedence
ExpectedKind(cfg, name) ==
  IF name \in DOMAIN cfg.chains THEN "chain"
  ELSE IF name \in DOMAIN cfg.commands THEN "command"
  ELSE IF name \in BuiltinNames THEN "builtin"
  ELSE "unknown"

\* the shell command a non-chain step name stands for
ExpectedRun(cfg, name) ==
  IF name \in DOMAIN cfg.commands THEN cfg.commands[name].run
  ELSE IF name \in BuiltinNames THEN getBuiltinCommands(cfg)[name].run
  ELSE "<unknown step>"

\* depth-first, left-to-right flattening of a step list into shell commands;
\* depth = the nesting still allowed, which an acyclic configuration never
\* exhausts when it starts at the number of chains
RECURSIVE FlattenSteps(_, _, _)
FlattenSteps(cfg, steps, depth) ==
  IF steps = <<>> THEN <<>>
  ELSE (IF Head(steps) \in DOMAIN cfg.chains
        THEN IF depth = 0 THEN <<"<cycle>">>
             ELSE FlattenSteps(cfg, cfg.chains[Head(steps)], depth - 1)
        ELSE <<ExpectedRun(cfg, Head(steps))>>)
       \o FlattenSteps(cfg, Tail(steps), depth)

\* every step of every chain is a chain, a user command or a built-in
NoUnknownStep(cfg) ==
  \A a \in DOMAIN cfg.chains : \A i \in 1..Len(cfg.chains[a]) :
    ExpectedKind(cfg, cfg.chains[a][i]) # "unknown"

\* the chain-reference graph of a configuration: a -> b when chain a has step b
\* and b is itself a chain
ChainEdges(cfg) ==
  {e \in (DOMAIN cfg.chains) \X (DOMAIN cfg.chains) :
     \E i \in 1..Len(cfg.chains[e[1]]) : cfg.chains[e[1]][i] = e[2]}

RECURSIVE Closure(_, _)
Closure(R, k) ==
  IF k = 0 THEN R
  ELSE Closure(R \cup {<<e[1], f[2]>> : <<e, f>> \in {x \in R \X R : x[1][2] = x[2][1]}},
               k - 1)

ChainPaths(cfg) == Closure(ChainEdges(cfg), Cardinality(DOMAIN cfg.chains))

\* the chains reachable from chain a, a included
ReachableChains(cfg, a) == {a} \cup {b \in DOMAIN cfg.chains : <<a, b>> \in ChainPaths(cfg)}

\* no chain references itself, directly or through other chains
Acyclic(cfg) == \A a \in DOMAIN cfg.chains : <<a, a>> \notin ChainPaths(cfg)

\* a genuine cycle can be reached from chain a
CycleReachable(cfg, a) ==
  \E b \in ReachableChains(cfg, a) : <<b, b>> \in ChainPaths(cfg)

\* ------------------------------------------------------------------------
\* Properties
\* ------------------------------------------------------------------------

\* C1 (fail-fast): a child that exited with a non-zero code c is the last
\* child ever spawned by the run, whatever the nesting of the chain it
\* belongs to, and the run's result is c.
C1_FailFast ==
  \A k \in 1..Len(children) :
    ExitedNonZero(children[k]) =>
      /\ k = Len(children)
      /\ pc = "exited" => exitCode = children[k].code.n

\* first step exits 0, second exits 3, three more steps exist: two children
C1_Witness ==
  /\ pc = "exited"
  /\ command = "validate"
  /\ IsChainRun
  /\ config.chains["validate"] = <<"format", "lint", "typecheck", "test", "build">>
  /\ Len(children) = 2
  /\ ExitedWith(children[1], 0)
  /\ ExitedWith(children[2], 3)
  /\ exitCode = 3

\* C2 (no false cycle positives): in a configuration whose chain-reference
\* graph is acyclic no run reports a circular chain reference.
C2_NoFalseCycle ==
  (pc # "init" /\ ~config.threw /\ Acyclic(config)) => ~HasLog("circular")

\* C3 (cycle detection): a circular-chain error names a chain that was
\* entered before, ends the run with exit code 1 and is followed by no
\* command; no chain is ever active twice on the call path; a run from which
\* a genuine cycle is reachable never succeeds; and for a -> [b], b -> [a]
\* the run of a executes no command at all.
C3_CycleDetection ==
  /\ \A i \in 1..Len(log) :
       log[i].kind = "circular" =>
         /\ pc = "exited" /\ exitCode = 1
         /\ i = Len(log)
         /\ log[i].name \in visited
         /\ \A k \in 1..Len(children) : Reported(children[k])
  /\ \A i, j \in 1..Len(stack) : i # j => stack[i].name # stack[j].name
  /\ (IsChainRun /\ pc = "exited" /\ CycleReachable(config, command)) => exitCode # 0
  /\ (IsChainRun /\ pc = "exited") =>
       \A b \in DOMAIN config.chains \ {command} :
         (config.chains[command] = <<b>> /\ config.chains[b] = <<command>>) =>
           /\ children = <<>>
           /\ exitCode = 1
           /\ Errors = <<LogLine("circular", command, 1)>>

\* A -> [B], B -> [A], run A
C3_Witness ==
  /\ IsChainRun /\ pc = "exited" /\ command = "A"
  /\ "B" \in DOMAIN config.chains
  /\ config.chains["A"] = <<"B">> /\ config.chains["B"] = <<"A">>
  /\ Errors = <<LogLine("circular", "A", 1)>>
  /\ children = <<>>

\* C4 as claimed (expansion precedes execution): a run that ends in an
\* unknown-step or circular-chain error has spawned no child process.
C4_ExpansionFirst ==
  (HasLog("unknownStep") \/ HasLog("circular")) => children = <<>>

\* C4 as amended: steps are resolved when execution reaches them; a run that
\* ends in an unknown-step or circular-chain error ends with exit code 1 at
\* that step, every command spawned before it has run and exited 0, and no
\* command is spawned after it.
C4_LazyResolution ==
  (HasLog("unknownStep") \/ HasLog("circular")) =>
    /\ pc = "exited" /\ exitCode = 1
    /\ log[Len(log)].kind \in {"unknownStep", "circular"}
    /\ \A k \in 1..Len(children) : ExitedWith(children[k], 0)

\* a command ran before the unknown step was met
C4_Witness ==
  /\ HasLog("unknownStep")
  /\ Len(children) >= 1
  /\ ExitedWith(children[1], 0)

\* C5 (step resolution precedence): the command spawned for a step is the
\* user command of that name if there is one and the built-in otherwise; a
\* nested call runs a step that is a key of chains; an unknown-step error
\* names a step found in none of the three maps, and a step found in none of
\* them is reported as an unknown step.
C5_StepPrecedence ==
  /\ pc = "awaitChain" =>
       LET top == stack[Len(stack)]
           step == config.chains[top.name][top.idx]
       IN /\ ExpectedKind(config, step) \in {"command", "builtin"}
          /\ children[Len(children)].run = ExpectedRun(config, step)
  /\ \A k \in 2..Len(stack) :
       /\ stack[k].name = config.chains[stack[k-1].name][stack[k-1].idx]
       /\ ExpectedKind(config, stack[k].name) = "chain"
  /\ IsChainRun =>
       \A i \in 1..Len(log) :
         log[i].name # "spawn" =>
           (log[i].kind = "unknownStep" <=> ExpectedKind(config, log[i].name) = "unknown")

\* C5 for the step names that are not members of Object.prototype
C5_StepPrecedenceOwnNames ==
  /\ pc = "awaitChain" =>
       LET top == stack[Len(stack)]
           step == config.chains[top.name][top.idx]
       IN /\ ExpectedKind(config, step) \in {"command", "builtin"}
          /\ children[Len(children)].run = ExpectedRun(config, step)
  /\ \A k \in 2..Len(stack) :
       /\ stack[k].name = config.chains[stack[k-1].name][stack[k-1].idx]
       /\ ExpectedKind(config, stack[k].name) = "chain"
  /\ IsChainRun =>
       \A i \in 1..Len(log) :
         log[i].name \notin ProtoNames \cup {"spawn"} =>
           (log[i].kind = "unknownStep" <=> ExpectedKind(config, log[i].name) = "unknown")

\* C6 (execution order): a chain run in which every step succeeded has
\* spawned exactly the shell commands of the depth-first, left-to-right
\* flattening of the chain, in that order.
C6_ExecutionOrder ==
  (IsChainRun /\ pc = "exited" /\ exitCode = 0) =>
    [k \in 1..Len(children) |-> children[k].run]
      = FlattenSteps(config, config.chains[command], Cardinality(DOMAIN config.chains))

\* a successful run through a nested chain that has commands of its own
C6_Witness ==
  /\ IsChainRun /\ pc = "exited" /\ exitCode = 0
  /\ Len(children) >= 2
  /\ \E i \in 1..Len(config.chains[command]) :
       /\ config.chains[command][i] \in DOMAIN config.chains
       /\ config.chains[config.chains[command][i]] # <<>>
       /\ i < Len(config.chains[command])

\* C7 (success result): a chain run of an acyclic configuration without
\* unknown steps in which every executed child exited 0 returns 0.
C7_SuccessResult ==
  (/\ IsChainRun /\ pc = "exited"
   /\ Acyclic(config) /\ NoUnknownStep(config)
   /\ \A k \in 1..Len(children) : ExitedWith(children[k], 0))
  => exitCode = 0

\* C9 (chain merge precedence): the resolved chains are the validate chain
\* plus the user's chains; each user chain is taken as a whole; validate is
\* chains.validate if given, else validateChain if given, else the default.
C9_ChainMerge ==
  Loaded =>
    /\ DOMAIN config.chains =
         {"validate"} \cup (IF UserHas("chains") THEN DOMAIN file.json.chains ELSE {})
    /\ \A k \in DOMAIN config.chains :
         config.chains[k] =
           IF UserHas("chains") /\ k \in DOMAIN file.json.chains
           THEN file.json.chains[k]
           ELSE IF UserHas("validateChain")
           THEN file.json.validateChain
           ELSE <<"format", "lint", "typecheck", "test", "build">>

\* validateChain and chains.validate both given, with different step lists
C9_Witness ==
  /\ Loaded
  /\ UserHas("chains") /\ UserHas("validateChain")
  /\ "validate" \in DOMAIN file.json.chains
  /\ file.json.chains["validate"] # file.json.validateChain
  /\ config.chains["validate"] = file.json.chains["validate"]

C8_OneChildAtATime ==
  /\ Cardinality({k \in 1..Len(children) : children[k].state = "running"}) <= 1
  /\ \A k \in 1..Len(children) : k < Len(children) => Reported(children[k])

\* a second child running inside a nested chain after the first one ended
C8_Witness ==
  /\ pc = "awaitChain"
  /\ Len(stack) >= 2
  /\ Len(children) >= 2
  /\ children[Len(children)].state = "running"
  /\ Reported(children[1])

\* what the runner's promise must hold once the child c has reported
RunnerValue(c) ==
  IF c.state = "closed" /\ ~c.code.isNull THEN c.code.n ELSE 1

\* C11 (runner result): runShellCommand never throws and its promise is
\* never rejected; once the child reported, the promise holds the child's
\* exit code, or 1 when the child could not be spawned, and a chain step
\* whose spawn failed ends the run like a step that exited with 1.
C11_RunnerResult ==
  /\ \A i \in 1..Len(log) : log[i] # LogLine("TypeError", "spawn", 1)
  /\ (children # <<>> /\ Reported(children[Len(children)])) =>
       /\ promise.settled
       /\ promise.value = RunnerValue(children[Len(children)])
  /\ (pc = "exited" /\ children # <<>> /\ children[Len(children)].state = "errored") =>
       exitCode = 1

\* C11 for the commands that spawn() accepts
C11_RunnerResultSpawned ==
  /\ (children # <<>> /\ Reported(children[Len(children)])) =>
       /\ promise.settled
       /\ promise.value = RunnerValue(children[Len(children)])
  /\ (pc = "exited" /\ children # <<>> /\ children[Len(children)].state = "errored") =>
       exitCode = 1

\* the flattening of the chain named name
Flat(cfg, name) ==
  FlattenSteps(cfg, cfg.chains[name], Cardinality(DOMAIN cfg.chains))

\* C12 (unknown step): a chain run whose flattening has a step found in none
\* of chains, commands and built-ins never succeeds and never spawns the
\* command of that position or of a later one; when every command before it
\* exited 0 the run ends with exit code 1; an unknown-step error ends the
\* run with 1 at once; and a CLI name that is neither a switch case, a chain
\* nor a user command exits with 1 without running anything.
C12_UnknownStep ==
  /\ (IsChainRun /\ pc = "exited") =>
       \A p \in 1..Len(Flat(config, command)) :
         Flat(config, command)[p] = "<unknown step>" =>
           /\ Len(children) < p
           /\ exitCode # 0
           /\ (Len(children) = p - 1 /\ \A k \in 1..Len(children) : ExitedWith(children[k], 0))
                => exitCode = 1
  /\ HasLog("unknownStep") => (pc = "exited" /\ exitCode = 1)
  /\ (/\ Loaded /\ pc = "exited"
      /\ command \notin {"validate", "lint", "config"}
      /\ command \notin DOMAIN config.chains
      /\ command \notin DOMAIN config.commands)
     => (exitCode = 1 /\ children = <<>>)

\* an unknown step inside a nested chain, with a command step left in the
\* enclosing chain that is never run
C12_Witness ==
  /\ IsChainRun /\ pc = "exited" /\ exitCode = 1
  /\ HasLog("unknownStep")
  /\ children = <<>>
  /\ Len(config.chains[command]) = 2
  /\ config.chains[command][1] \in DOMAIN config.chains \ {command}
  /\ ExpectedKind(config, config.chains[command][2]) \in {"command", "builtin"}

\* C13 (exit-code propagation): the exit code of a finished chain run is the
\* value reported for its last child when that child did not exit with 0
\* (its own non-zero code unchanged, at any depth of nesting; 1 for a spawn
\* error or a null code), else 1 when the run ended in an unknown-step or
\* circular-chain error or crashed, else 0.
C13_ExitCodePropagation ==
  (IsChainRun /\ pc = "exited") =>
    exitCode =
      IF children # <<>> /\ ~ExitedWith(children[Len(children)], 0)
      THEN RunnerValue(children[Len(children)])
      ELSE IF HasLog("unknownStep") \/ HasLog("circular") \/ HasLog("TypeError")
      THEN 1
      ELSE 0

\* a command of a nested chain exited with 3: every step of the entry chain
\* is a chain reference
C13_Witness ==
  /\ IsChainRun /\ pc = "exited" /\ exitCode = 3
  /\ children # <<>>
  /\ ExitedWith(children[Len(children)], 3)
  /\ \A i \in 1..Len(config.chains[command]) :
       config.chains[command][i] \in DOMAIN config.chains

\* C14 (dynamic CLI dispatch): a CLI command that is a key of the resolved
\* chains map runs that chain through runChain, and one that is a key of the
\* resolved commands map (and no chain) runs exactly one child, with the
\* user command's run string in the user command's cwd, and exits with the
\* value the runner reports for it.  (Commands spawn() rejects are left to
\* C11.)
C14_DynamicDispatch ==
  (Loaded /\ ~config.threw) =>
    /\ command \in DOMAIN config.chains => command \in visited
    /\ ( /\ command \in DOMAIN config.commands
         /\ command \notin DOMAIN config.chains
         /\ ~SpawnThrows(config.commands[command]) )
       => /\ Len(children) = 1
          /\ children[1].run = config.commands[command].run
          /\ children[1].cwd = ResolveCwd(config.commands[command])
          /\ pc = "exited" => exitCode = RunnerValue(children[1])

\* C14 for the names that are no case of the switch of main
C14_DynamicDispatchDefault ==
  (Loaded /\ ~config.threw /\ command # "lint") =>
    /\ command \in DOMAIN config.chains => command \in visited
    /\ ( /\ command \in DOMAIN config.commands
         /\ command \notin DOMAIN config.chains
         /\ ~SpawnThrows(config.commands[command]) )
       => /\ Len(children) = 1
          /\ children[1].run = config.commands[command].run
          /\ children[1].cwd = ResolveCwd(config.commands[command])
          /\ pc = "exited" => exitCode = RunnerValue(children[1])

C16_Termination ==
  (IsChainRun /\ Acyclic(config)) ~> (pc = "exited" /\ exitCode # NoCode)

\* an acyclic chain run with a nested chain ended after its command exited
C16_Witness ==
  /\ IsChainRun /\ Acyclic(config)
  /\ pc = "exited" /\ exitCode # NoCode
  /\ children # <<>>
  /\ Reported(children[Len(children)])
  /\ \E i \in 1..Len(config.chains[command]) :
       config.chains[command][i] \in DOMAIN config.chains

\* the number of steps of a chain that are commands, not chain references
CommandSteps(cfg, a) ==
  Cardinality({i \in 1..Len(cfg.chains[a]) : cfg.chains[a][i] \notin DOMAIN cfg.chains})

RECURSIVE SumCommandSteps(_, _)
SumCommandSteps(cfg, S) ==
  IF S = {} THEN 0
  ELSE LET a == CHOOSE x \in S : TRUE
       IN CommandSteps(cfg, a) + SumCommandSteps(cfg, S \ {a})

C18_DefaultRoundTrip ==
  (pc = "exited" /\ command = "config" /\ HasLog("created")) =>
    LET written == loadConfig(file)
        nofile  == loadConfig([kind |-> "absent", json |-> EmptyObject])
    IN /\ ~written.threw /\ ~nofile.threw
       /\ written.chains = nofile.chains
       /\ written.commands = nofile.commands
       /\ DOMAIN written.chains = {"validate"}
       /\ written.chains["validate"] = <<"format", "lint", "typecheck", "test", "build">>
       /\ DOMAIN written.commands = {}
       /\ written.srcDir = "./src"

\* `ts-builds config --force` has overwritten a config file
C18_Witness ==
  /\ pc = "exited" /\ command = "config" /\ subCommand = "--force"
  /\ HasLog("created")
  /\ file.kind = "json"
  /\ "validateChain" \in file.json.has

\* C19 (per-step working directory): the child of the step a chain run is
\* waiting for runs in <root>/<cwd> when the command the step resolves to
\* declares a cwd and in the invocation root otherwise, whatever the steps
\* before it and the chains around it declared; the child of a user command
\* run from the command line likewise.
C19_PerStepCwd ==
  /\ (IsChainRun /\ pc = "awaitChain") =>
       LET top  == stack[Len(stack)]
           step == config.chains[top.name][top.idx]
       IN children[Len(children)].cwd =
            IF /\ step \in DOMAIN config.commands
               /\ config.commands[step].hasCwd
               /\ config.commands[step].cwd = "./pkg"
            THEN "<root>/pkg"
            ELSE "<root>"
  /\ (Loaded /\ ~config.threw /\ pc = "awaitCmd" /\ command # "lint") =>
       children[Len(children)].cwd =
         IF config.commands[command].hasCwd /\ config.commands[command].cwd = "./pkg"
         THEN "<root>/pkg"
         ELSE "<root>"
  /\ (Loaded /\ ~config.threw /\ pc = "awaitCmd" /\ command = "lint") =>
       children[Len(children)].cwd = "<root>"

\* a step with a cwd has run and the step after it, which has none, is
\* running in the invocation root
C19_Witness ==
  /\ IsChainRun /\ pc = "awaitChain"
  /\ Len(children) >= 2
  /\ children[Len(children) - 1].cwd = "<root>/pkg"
  /\ children[Len(children)].cwd = "<root>"

\* C20 (command normalisation): the resolved commands map has exactly the
\* names of the user's commands mapping (none when the file has no such
\* mapping); a bare string s is resolved to {run: s} with no cwd, an object
\* entry to the same run and cwd.
C20_CommandNormalization ==
  (Loaded /\ ~config.threw) =>
    LET user == IF UserHas("commands") THEN file.json.commands ELSE EmptyMap
    IN /\ DOMAIN config.commands = DOMAIN user
       /\ \A k \in DOMAIN user :
            /\ config.commands[k].run = user[k].run
            /\ user[k].isString => ~config.commands[k].hasCwd
            /\ ~user[k].isString =>
                 /\ config.commands[k].hasCwd = user[k].hasCwd
                 /\ config.commands[k].cwd = user[k].cwd

\* a config with a string entry and an object entry with a cwd was resolved
C20_Witness ==
  /\ Loaded /\ ~config.threw
  /\ UserHas("commands")
  /\ \E k \in DOMAIN config.commands :
       file.json.commands[k].isString /\ ~config.commands[k].hasCwd
  /\ \E k \in DOMAIN config.commands :
       ~file.json.commands[k].isString /\ config.commands[k].cwd = "./pkg"

\* C21 (init is idempotent): after init every required hoist pattern occurs
\* in .npmrc, and a second run of ensureNpmrcHoistPatterns on that file
\* writes nothing and leaves it as it is, whatever .npmrc held before.
C21_InitIdempotent ==
  (pc = "exited" /\ command = "init") =>
    /\ npmrc.exists
    /\ \A i \in 1..Len(requiredHoistPatterns) :
         \E j \in 1..Len(npmrc.text) : npmrc.text[j] = requiredHoistPatterns[i]
    /\ LET second == ensureNpmrcHoistPatterns(npmrc)
       IN ~second.wrote /\ second.file = npmrc

\* init completed a partial .npmrc that did not end with a line break
C21_Witness ==
  /\ pc = "exited" /\ command = "init"
  /\ HasLog("npmrcUpdated")
  /\ Len(npmrc.text) > 3
  /\ npmrc.text[1] = requiredHoistPatterns[4]
  /\ npmrc.text[2] = NL /\ npmrc.text[3] = NL

\* C22 (config without --force never overwrites): `ts-builds config` leaves
\* an existing ts-builds.config.json as it is unless --force or -f is given,
\* and writes the default config when the file is absent or force is given;
\* no other command writes the file.
C22_ConfigNoOverwrite ==
  [][ /\ (pc = "init" /\ command' = "config") =>
           IF file.kind # "absent" /\ subCommand' \notin {"--force", "-f"}
           THEN file' = file
           ELSE /\ file'.kind = "json"
                /\ file'.json.t = "object"
                /\ file'.json.has = {"srcDir", "validateChain"}
                /\ file'.json.srcDir = "./src"
                /\ file'.json.validateChain =
                     <<"format", "lint", "typecheck", "test", "build">>
      /\ command' # "config" => file' = file ]_vars

\* `ts-builds config` found a config file of the user and kept it
C22_Witness ==
  /\ pc = "exited" /\ command = "config" /\ subCommand = ""
  /\ HasLog("exists")
  /\ file.kind = "json"
  /\ UserHas("chains")

\* the step writes package.json (the line "Removed n redundant package(s)")
WritesPackageJson ==
  /\ \A i \in 1..Len(log) : log[i].kind # "removed"
  /\ \E i \in 1..Len(log') : log'[i].kind = "removed"

\* the step is the user declining at the prompt of cleanup
Declines ==
  /\ pc = "awaitAnswer" /\ pc' = "exited"
  /\ log'[Len(log) + 1].name \notin {"y", "Y", "yes", "Yes", "YES"}

\* C23 (cleanup removes only redundant entries): a cleanup that writes
\* package.json leaves no bundled package in devDependencies and changes
\* neither a non-bundled entry of devDependencies nor any other field
\* (name, dependencies); package.json is not written when the user declines
\* without --yes / -y, or when no bundled package is listed.
C23_CleanupOnlyDevDependencies ==
  [][ /\ WritesPackageJson =>
           /\ DOMAIN packageJson'.devDependencies \cap bundledPackages = {}
           /\ \A k \in DOMAIN packageJson.devDependencies \ bundledPackages :
                /\ k \in DOMAIN packageJson'.devDependencies
                /\ packageJson'.devDependencies[k] = packageJson.devDependencies[k]
           /\ DOMAIN packageJson'.devDependencies \subseteq DOMAIN packageJson.devDependencies
           /\ packageJson'.name = packageJson.name
           /\ packageJson'.hasDeps = packageJson.hasDeps
           /\ packageJson'.dependencies = packageJson.dependencies
      /\ ~WritesPackageJson => packageJson' = packageJson
      /\ Declines => ~WritesPackageJson
      /\ ( /\ DOMAIN packageJson.devDependencies \cap bundledPackages = {}
           /\ DOMAIN packageJson.dependencies \cap bundledPackages = {} )
         => ~WritesPackageJson ]_vars

\* what cleanup does: it cleans dependencies like devDependencies, and a map
\* left without entries is removed from package.json
C23_CleanupBothMaps ==
  [][ /\ WritesPackageJson =>
           /\ \A f \in {"devDependencies", "dependencies"} :
                /\ DOMAIN packageJson'[f] = DOMAIN packageJson[f] \ bundledPackages
                /\ \A k \in DOMAIN packageJson'[f] : packageJson'[f][k] = packageJson[f][k]
           /\ packageJson'.hasDev = (DOMAIN packageJson'.devDependencies # {})
           /\ packageJson'.hasDeps = (DOMAIN packageJson'.dependencies # {})
           /\ packageJson'.name = packageJson.name
           /\ \/ pc = "init" /\ subCommand' \in {"--yes", "-y"}
              \/ pc = "awaitAnswer" /\ ~Declines
      /\ ~WritesPackageJson => packageJson' = packageJson
      /\ Declines => ~WritesPackageJson
      /\ ( /\ DOMAIN packageJson.devDependencies \cap bundledPackages = {}
           /\ DOMAIN packageJson.dependencies \cap bundledPackages = {} )
         => ~WritesPackageJson ]_vars

\* C24 (default command): the CLI started without a command argument does
\* what it does for the argument init, and nothing else: .npmrc is brought
\* up to date by ensureNpmrcHoistPatterns, no configuration is loaded, no
\* child process is spawned, no other file is written, and the process ends
\* with exit code 0.
C24_DefaultCommandIsInit ==
  [][ (pc = "init" /\ argv2' \in {"", "init"}) =>
        /\ command' = "init"
        /\ npmrc' = ensureNpmrcHoistPatterns(npmrc).file
        /\ file' = file /\ packageJson' = packageJson
        /\ config' = config /\ children' = <<>> /\ visited' = {}
        /\ pc' = "exited" /\ exitCode' = 0 ]_vars

\* the CLI was started without a command and completed a partial .npmrc
C24_Witness ==
  /\ pc = "exited" /\ argv2 = "" /\ command = "init"
  /\ HasLog("npmrcUpdated")
  /\ Len(npmrc.text) > 1
  /\ npmrc.text[1] = requiredHoistPatterns[1]

\* the terminal outcomes of a chain run, read off the last diagnostic line
\* and the exit code
ExpansionFailure ==
  /\ log # <<>> /\ log[Len(log)].kind \in {"unknownStep", "circular"}
  /\ exitCode = 1

StepFailure ==
  /\ log # <<>> /\ log[Len(log)].kind = "failed"
  /\ children # <<>> /\ Reported(children[Len(children)])
  /\ exitCode = RunnerValue(children[Len(children)])
  /\ exitCode # 0

AllComplete ==
  /\ \A i \in 1..Len(log) : log[i].kind \notin {"unknownStep", "circular", "failed", "TypeError"}
  /\ \A i \in 1..Len(children) : ExitedWith(children[i], 0)
  /\ exitCode = 0

\* the step indices of the active runChain calls, outermost first
Position(stk) == [k \in 1..Len(stk) |-> stk[k].idx]

\* a comes before b in the depth-first order of step occurrences
Before(a, b) ==
  \E k \in 1..Len(a) :
    /\ k <= Len(b)
    /\ a[k] < b[k]
    /\ \A j \in 1..(k - 1) : a[j] = b[j]

\* once the run has ended nothing is spawned, and each new child belongs to
\* a step occurrence after the one of the child before it
NoRespawnNoRetry ==
  /\ pc = "exited" => children' = children
  /\ (pc = "awaitChain" /\ pc' = "awaitChain" /\ Len(children') > Len(children)) =>
       /\ Len(children') = Len(children) + 1
       /\ Before(Position(stack), Position(stack'))

\* C25 (run state machine): a finished chain run is in exactly one of the
\* outcomes expansion failure (unknown step or cycle, exit code 1), step
\* failure (the code reported for the failing child) and all complete (exit
\* code 0); after the end no child is spawned, and no step occurrence is
\* executed a second time.
C25_RunStateMachine ==
  /\ [](IsChainRun /\ pc = "exited" =>
          /\ ExpansionFailure \/ StepFailure \/ AllComplete
          /\ ~(ExpansionFailure /\ StepFailure)
          /\ ~(ExpansionFailure /\ AllComplete)
          /\ ~(StepFailure /\ AllComplete))
  /\ [][NoRespawnNoRetry]_vars

\* C25 for the runs that do not end by an uncaught exception
C25_RunStateMachineReturned ==
  /\ [](IsChainRun /\ pc = "exited" /\ ~HasLog("TypeError") =>
          /\ ExpansionFailure \/ StepFailure \/ AllComplete
          /\ ~(ExpansionFailure /\ StepFailure)
          /\ ~(ExpansionFailure /\ AllComplete)
          /\ ~(StepFailure /\ AllComplete))
  /\ [][NoRespawnNoRetry]_vars

\* C26 (read-only configuration): from the moment main has it, the
\* ResolvedConfig is what loadConfig returned for the config file, and no
\* step of runChain, of the runner or of a child event changes it (srcDir,
\* testDir, commands, chains) or any file; of the state shared between the
\* runChain calls only the visited set changes.
C26_ReadOnlyConfig ==
  /\ [](Loaded => config = loadConfig(file))
  /\ [][ (pc = "awaitChain" \/ pc = "awaitCmd") =>
           (config' = config /\ file' = file /\ npmrc' = npmrc
              /\ packageJson' = packageJson) ]_vars

\* a run through a nested chain with user commands has ended
C26_Witness ==
  /\ IsChainRun /\ pc = "exited"
  /\ Len(children) >= 2
  /\ Cardinality(visited) >= 2
  /\ DOMAIN config.commands # {}
  /\ config = loadConfig(file)

\* the CLI run did for the name `command` what a chain step of that name
\* does: it ran the chain, or spawned first the command the step resolves to
\* (user commands before built-ins) in that command's directory
RunsLikeStep ==
  IF ExpectedKind(config, command) = "chain"
  THEN command \in visited
  ELSE LET cmdDef == IF command \in DOMAIN config.commands
                     THEN config.commands[command]
                     ELSE getBuiltinCommands(config)[command]
       IN \/ SpawnThrows(cmdDef)
          \/ /\ children # <<>>
             /\ children[1].run = cmdDef.run
             /\ children[1].cwd = ResolveCwd(cmdDef)

\* C27 (CLI/chain equivalence): for every name that resolves as a chain step
\* (chain, user command or built-in, in that order), the CLI invoked with
\* that name runs what the step of that name runs inside a chain; a user
\* command named like a built-in is the one that runs.
C27_CliChainEquivalence ==
  (Loaded /\ ~config.threw /\ ExpectedKind(config, command) # "unknown") =>
    RunsLikeStep

\* C27 for the names other than lint and compile
C27_CliChainEquivalenceOtherNames ==
  ( /\ Loaded /\ ~config.threw /\ ExpectedKind(config, command) # "unknown"
    /\ command \notin {"lint", "compile"} ) =>
    RunsLikeStep

\* the chains whose step list the run has entered ("Running chain: ...")
Entered == {log[i].name : i \in {j \in 1..Len(log) : log[j].kind = "chain"}}

\* C28 (visited set is monotone and shared): before the invocation runs a
\* chain the visited set is empty; while the run goes on it only grows, also
\* when a nested chain returns; it holds every chain entered so far and every
\* chain with an active call; and no chain's step list is entered twice.
C28_VisitedMonotone ==
  /\ [](pc = "init" => visited = {})
  /\ [](IsChainRun =>
          /\ Entered \subseteq visited
          /\ \A k \in 1..Len(stack) : stack[k].name \in visited
          /\ \A i, j \in 1..Len(log) :
               (log[i].kind = "chain" /\ log[j].kind = "chain" /\ i # j)
                 => log[i].name # log[j].name)
  /\ [][pc # "init" => visited \subseteq visited']_vars

\* a nested chain has returned, its name is still in the visited set, and
\* the run is at a later step of the enclosing chain
C28_Witness ==
  /\ IsChainRun /\ pc = "awaitChain"
  /\ Len(stack) = 1
  /\ stack[1].idx > 1
  /\ \E a \in visited : a # command /\ a \in Entered

\* C29 (single resolution per child): while the CLI waits for a child, the
\* runner's promise is settled exactly when the child has reported, and its
\* value is that of the child's first event (1 for 'error', also when
\* 'close' follows with another code; the exit code, or 1 for a null code,
\* for 'close'); a settled promise never changes; and each continuation of
\* the chain consumes one settled promise and spawns at most one new child
\* with a fresh promise.
C29_SingleResolution ==
  /\ []((pc \in {"awaitChain", "awaitCmd"} /\ children # <<>>) =>
          /\ promise.settled <=> Reported(children[Len(children)])
          /\ promise.settled =>
               promise.value =
                 IF children[Len(children)].state = "errored" THEN 1
                 ELSE IF children[Len(children)].code.isNull THEN 1
                 ELSE children[Len(children)].code.n)
  /\ [][ /\ (promise.settled /\ children' = children) => promise' = promise
         /\ (pc = "awaitChain" /\ children' # children /\ Reported(children[Len(children)])) =>
              /\ promise.settled
              /\ Len(children') = Len(children) + 1
              /\ ~promise'.settled
              /\ SubSeq(children', 1, Len(children)) = children ]_vars

\* a spawn failure was reported by 'error' and then 'close' while a chain waits
C29_Witness ==
  /\ pc = "awaitChain"
  /\ Len(children) >= 2
  /\ children[Len(children)].state = "errored"
  /\ promise.settled /\ promise.value = 1

\* the number of occurrences of fragment s in text
RECURSIVE Occurrences(_, _)
Occurrences(text, s) ==
  IF text = <<>> THEN 0
  ELSE (IF Head(text) = s THEN 1 ELSE 0) + Occurrences(Tail(text), s)

PatternSet == {requiredHoistPatterns[i] : i \in 1..Len(requiredHoistPatterns)}

\* C30 (existing .npmrc content is preserved): a step that writes .npmrc
\* keeps the old text as a prefix of the new one and appends nothing but
\* line breaks, at most one header line (none when the old text has the
\* header) and each required pattern the old text does not contain exactly
\* once; every appended header or pattern is a line of its own.  No other
\* step changes .npmrc.
C30_NpmrcPreserved ==
  [][ npmrc' # npmrc =>
        LET old == IF npmrc.exists THEN npmrc.text ELSE <<>>
            new == npmrc'.text
            added == SubSeq(new, Len(old) + 1, Len(new))
        IN /\ command' = "init"
           /\ npmrc'.exists
           /\ Len(new) > Len(old)
           /\ SubSeq(new, 1, Len(old)) = old
           /\ \A i \in 1..Len(added) : added[i] \in PatternSet \cup {header, NL}
           /\ Occurrences(added, header) =
                (IF \E i \in 1..Len(old) : old[i] = header THEN 0 ELSE 1)
           /\ \A p \in PatternSet :
                Occurrences(added, p) =
                  (IF \E i \in 1..Len(old) : old[i] = p THEN 0 ELSE 1)
           /\ \A j \in (Len(old) + 1)..Len(new) :
                new[j] # NL =>
                  /\ j = 1 \/ new[j - 1] = NL
                  /\ j < Len(new) /\ new[j + 1] = NL ]_vars

\* init appended the five missing patterns to a file that already had a
\* comment and the typescript pattern
C30_Witness ==
  /\ pc = "exited" /\ command = "init"
  /\ HasLog("npmrcUpdated")
  /\ log[1].code = 5
  /\ npmrc.text[1] = "#"
  /\ Occurrences(npmrc.text, requiredHoistPatterns[4]) = 1
  /\ Occurrences(npmrc.text, header) = 1
====
